---- MODULE Spec2Model ----
(***************************************************************************)
(* A model of package apifast (apifast.go): the fluent request builder     *)
(* FastBuilder, its setters, the four terminal calls and makeRequest,      *)
(* together with the parts of the transport (fasthttp) and of the Go       *)
(* runtime that makeRequest's outcome depends on: the deadline timer of    *)
(* the context it creates, Client.DoTimeout, Header.Set, the pooled        *)
(* response body buffers and json.Unmarshal.                               *)
(*                                                                         *)
(* Go strings are TLA+ strings, except where the code reads their bytes    *)
(* (the credentials that are base64-encoded, the JSON body): those are     *)
(* sequences of one-character strings.                                     *)
(***************************************************************************)
EXTENDS Integers, Sequences, FiniteSets, TLC

VARIABLES
    b,          \* the FastBuilder: method, url, options, result
    last,       \* history: the last argument passed to each setter, and
                \* the terminal method called last
    pc,         \* "idle", or "inflight" while makeRequest is in DoTimeout
    elapsed,    \* time since makeRequest created its context
    ctxErr,     \* ctx.Err() of the context of the call in flight
    req,        \* the request the call in flight handed to the transport
    tres,       \* history: what DoTimeout gave the last call
    decoded,    \* history: mapper ran in the last call
    dest,       \* what the destination object holds
    ret,        \* what the last terminal call returned
    mem,        \* the backing arrays of the transport's body buffers
    pool,       \* the body buffers in the transport's pool (array ids)
    kept        \* the Responses the caller holds on to, with the bytes
                \* their Body held when they were returned

vars == <<b, last, pc, elapsed, ctxErr, req, tres, decoded, dest, ret,
          mem, pool, kept>>

-----------------------------------------------------------------------------
(* Bounds *)

MaxTime == 2
MaxHdrs == 2
MaxPool == 1
MaxKept == 1

-----------------------------------------------------------------------------
(* Strings and bytes *)

RECURSIVE Str(_)
\* string(bytes): the string made of a sequence of characters
Str(s) == IF s = <<>> THEN "" ELSE Head(s) \o Str(Tail(s))

Digits == <<"0", "1", "2", "3", "4", "5", "6", "7", "8", "9">>

RECURSIVE Itoa(_)
\* the decimal form of an integer, as %v prints it
Itoa(n) ==
    IF n < 0 THEN "-" \o Itoa(0 - n)
    ELSE IF n < 10 THEN Digits[n + 1]
    ELSE Itoa(n \div 10) \o Digits[(n % 10) + 1]

\* Header.Value is an interface{}: a string, an int, a bool or nil
StrVal(s) == [t |-> "string", s |-> s, n |-> 0, f |-> FALSE]
IntVal(n) == [t |-> "int", s |-> "", n |-> n, f |-> FALSE]
BoolVal(f) == [t |-> "bool", s |-> "", n |-> 0, f |-> f]
NilVal == [t |-> "nil", s |-> "", n |-> 0, f |-> FALSE]

\* fmt.Sprintf("%v", h.Value)
Sprintv(v) ==
    CASE v.t = "string" -> v.s
      [] v.t = "int" -> Itoa(v.n)
      [] v.t = "bool" -> (IF v.f THEN "true" ELSE "false")
      [] OTHER -> "<nil>"

\* the byte value of the characters credentials are drawn from
Ord(c) ==
    CASE c = ":" -> 58
      [] c = "p" -> 112
      [] c = "s" -> 115
      [] c = "u" -> 117
      [] c = "w" -> 119

B64Alphabet ==
    << "A", "B", "C", "D", "E", "F", "G", "H", "I", "J", "K", "L", "M",
       "N", "O", "P", "Q", "R", "S", "T", "U", "V", "W", "X", "Y", "Z",
       "a", "b", "c", "d", "e", "f", "g", "h", "i", "j", "k", "l", "m",
       "n", "o", "p", "q", "r", "s", "t", "u", "v", "w", "x", "y", "z",
       "0", "1", "2", "3", "4", "5", "6", "7", "8", "9", "+", "/" >>

B64(i) == B64Alphabet[i + 1]

RECURSIVE StdEncoding(_)
\* base64.StdEncoding.EncodeToString: three bytes to four characters, the
\* last group padded with "="
StdEncoding(s) ==
    IF Len(s) = 0 THEN ""
    ELSE IF Len(s) = 1 THEN
        LET n == Ord(s[1]) * 65536
        IN  B64(n \div 262144) \o B64((n \div 4096) % 64) \o "=="
    ELSE IF Len(s) = 2 THEN
        LET n == Ord(s[1]) * 65536 + Ord(s[2]) * 256
        IN  B64(n \div 262144) \o B64((n \div 4096) % 64)
              \o B64((n \div 64) % 64) \o "="
    ELSE
        LET n == Ord(s[1]) * 65536 + Ord(s[2]) * 256 + Ord(s[3])
        IN  B64(n \div 262144) \o B64((n \div 4096) % 64)
              \o B64((n \div 64) % 64) \o B64(n % 64)
              \o StdEncoding(SubSeq(s, 4, Len(s)))

-----------------------------------------------------------------------------
(* The request header of the transport *)

\* the tags of a header list or of a request header, in order
Tags(hs) == {hs[i].Tag : i \in 1..Len(hs)}

HasTag(hs, tag) == \E i \in 1..Len(hs) : hs[i].Tag = tag

\* RequestHeader.Set: the value of an existing key is overwritten in place,
\* a new key is appended
HeaderSet(h, tag, value) ==
    IF HasTag(h, tag)
    THEN [i \in 1..Len(h) |->
             IF h[i].Tag = tag THEN [Tag |-> tag, Value |-> value] ELSE h[i]]
    ELSE Append(h, [Tag |-> tag, Value |-> value])

\* RequestHeader.Peek
Peek(h, tag) == LET i == CHOOSE j \in 1..Len(h) : h[j].Tag = tag IN h[i].Value

RECURSIVE ApplyHeadersAdd(_, _)
\* the loop with Header.Add in place of Header.Set: every entry is appended
ApplyHeadersAdd(h, hs) ==
    IF hs = <<>> THEN h
    ELSE ApplyHeadersAdd(Append(h, [Tag |-> Head(hs).Tag,
                                    Value |-> Sprintv(Head(hs).Value)]),
                         Tail(hs))

RECURSIVE ApplyHeaders(_, _)
\* for _, h := range b.options.Headers { req.Header.Set(h.Tag, Sprintf(h.Value)) }
ApplyHeaders(h, hs) ==
    IF hs = <<>> THEN h
    ELSE ApplyHeaders(HeaderSet(h, Head(hs).Tag, Sprintv(Head(hs).Value)),
                      Tail(hs))

\* the Basic branch is taken: Username != "" && Password != ""
IsBasic(a) == a.Username # <<>> /\ a.Password # <<>>

BasicValue(a) ==
    "Basic " \o StdEncoding(a.Username \o <<":">> \o a.Password)

BearerValue(a) == "Bearer " \o a.Token

\* the two branches in the other order: a token wins over a complete pair
ApplyAuthBearerFirst(h, a) ==
    IF a.Token # "" THEN HeaderSet(h, "Authorization", BearerValue(a))
    ELSE IF IsBasic(a) THEN HeaderSet(h, "Authorization", BasicValue(a))
    ELSE h

\* the else branch without its test of the token
ApplyAuthAlways(h, a) ==
    IF IsBasic(a) THEN HeaderSet(h, "Authorization", BasicValue(a))
    ELSE HeaderSet(h, "Authorization", BearerValue(a))

\* "Add Basic or Bearer authentication if provided"
ApplyAuth(h, a) ==
    IF IsBasic(a) THEN HeaderSet(h, "Authorization", BasicValue(a))
    ELSE IF a.Token # "" THEN HeaderSet(h, "Authorization", BearerValue(a))
    ELSE h

-----------------------------------------------------------------------------
(* The builder *)

NilBytes == [nil |-> TRUE, bytes |-> <<>>]
Bytes(s) == [nil |-> FALSE, bytes |-> s]

NoAuth == [Username |-> <<>>, Password |-> <<>>, Token |-> ""]

\* Build(): &FastBuilder{}
Build ==
    [method |-> "", url |-> "", Timeout |-> 0, payload |-> NilBytes,
     Headers |-> <<>>, Auth |-> NoAuth, result |-> "nil"]

\* the request makeRequest prepares from the builder
PrepareRequest(fb) ==
    [sent |-> TRUE,
     Header |-> ApplyAuth(ApplyHeaders(<<>>, fb.Headers), fb.Auth),
     uri |-> fb.url,
     method |-> fb.method,
     body |-> IF fb.payload.nil THEN NilBytes ELSE Bytes(fb.payload.bytes)]

NoRequest ==
    [sent |-> FALSE, Header |-> <<>>, uri |-> "", method |-> "",
     body |-> NilBytes]

-----------------------------------------------------------------------------
(* json.Unmarshal, on the documents the transport is made to deliver *)

RECURSIVE ValidJSON(_)
\* checkValid: a number, an empty object, or an array of at most one value
ValidJSON(s) ==
    \/ s = <<"1">>
    \/ s = <<"{", "}">>
    \/ /\ Len(s) >= 2
       /\ s[1] = "["
       /\ s[Len(s)] = "]"
       /\ (Len(s) = 2 \/ ValidJSON(SubSeq(s, 2, Len(s) - 1)))

JSONKind(s) ==
    IF s[1] = "1" THEN "number" ELSE IF s[1] = "{" THEN "object" ELSE "array"

\* json.Unmarshal(source, dest): dest is a *int, a *struct, or a nil pointer
\* held in a non-nil interface; the error's message, "" for nil
Unmarshal(source, d) ==
    IF ~ValidJSON(source) THEN "json: syntax error"
    ELSE IF d = "nilptr" THEN "json: Unmarshal(nil *int)"
    ELSE IF d = "*int" /\ JSONKind(source) # "number"
        THEN "json: cannot unmarshal " \o JSONKind(source) \o " into int"
    ELSE IF d = "*struct" /\ JSONKind(source) # "object"
        THEN "json: cannot unmarshal " \o JSONKind(source) \o " into struct"
    ELSE ""

mapper(source, d) == Unmarshal(source, d)

-----------------------------------------------------------------------------
(* Responses and the transport's body buffers *)

NilResponse ==
    [nil |-> TRUE, Code |-> 0, Msg |-> "", Body |-> [buf |-> 0, len |-> 0]]

\* resp.String() opens with the status line
StatusLine(code) == "HTTP/1.1 " \o Itoa(code)

\* the arrays a body buffer or a Response can point to
Arrays == 1..(MaxPool + MaxKept + 1)

\* the bytes a []byte shows: the head of its backing array
View(m, body) ==
    IF body.buf = 0 THEN <<>> ELSE SubSeq(m[body.buf], 1, body.len)

\* the arrays something still points to: a pooled buffer, a Response
Live(p, k, r) ==
    p \cup {x.resp.Body.buf : x \in k} \cup {r.resp.Body.buf}

\* the body buffer accepts the pooled array src when data fits its capacity
InPlace(src, data) == src # 0 /\ Len(data) <= Len(mem[src])

\* the array that holds the body once the transport has read data into the
\* buffer taken from the pool (src = 0: the pool had none to give): the
\* buffer's own array, or a new one when append has to grow it
BodyArray(src, data) ==
    IF InPlace(src, data) THEN src
    ELSE CHOOSE i \in Arrays :
             /\ i \notin Live(pool, kept, ret)
             /\ \A j \in Arrays : j \notin Live(pool, kept, ret) => i <= j

\* the arrays after that read: bodyBuf.Reset() then append(bodyBuf.B, data...)
ReadBody(src, data) ==
    IF InPlace(src, data)
    THEN [mem EXCEPT ![src] =
             data \o SubSeq(mem[src], Len(data) + 1, Len(mem[src]))]
    ELSE [mem EXCEPT ![BodyArray(src, data)] = data]

\* resp.Body()
RespBody(src, data) == [buf |-> BodyArray(src, data), len |-> Len(data)]

\* defer fasthttp.ReleaseResponse(resp): the body buffer goes back to the
\* pool, which drops it when it is full
ReleaseResponse(src, data) ==
    IF src = 0 /\ Cardinality(pool) >= MaxPool THEN pool
    ELSE (pool \ {src}) \cup {BodyArray(src, data)}

\* the garbage collector: an array nothing points to is gone
Collect(m, p, k, r) ==
    [i \in Arrays |-> IF i \in Live(p, k, r) THEN m[i] ELSE <<>>]

-----------------------------------------------------------------------------
(* makeRequest: what it returns *)

NoReturn == [done |-> FALSE, resp |-> NilResponse, err |-> ""]

\* DoTimeout's results: an error, or nil and a status code and a body
NoResult == [err |-> "", code |-> 0, data |-> <<>>]
Failed(cause) == [err |-> cause, code |-> 0, data |-> <<>>]

DeadlineExceeded == "context deadline exceeded"

\* if err != nil { if ctx.Err() == context.DeadlineExceeded {...} ... }
ErrorReturn(err, cerr) ==
    IF cerr # "" /\ cerr = DeadlineExceeded
    THEN [done |-> TRUE, resp |-> NilResponse, err |-> "request timed out"]
    ELSE [done |-> TRUE, resp |-> NilResponse,
          err |-> "request failed: " \o err]

\* the decode step without its test of the destination
RunsMapperAlways(fb) == TRUE

\* b.result != nil
RunsMapper(fb) == fb.result # "nil"

\* a decode failure that does not abort the call: the Response is returned
\* along with the error
SuccessReturnWithError(fb, code, data, body) ==
    [done |-> TRUE,
     resp |-> [nil |-> FALSE, Code |-> code, Msg |-> StatusLine(code),
               Body |-> body],
     err |-> IF RunsMapper(fb) THEN mapper(data, fb.result) ELSE ""]

\* the return after a successful exchange: the decode step, then the Response
SuccessReturn(fb, code, data, body) ==
    IF RunsMapper(fb) /\ mapper(data, fb.result) # ""
    THEN [done |-> TRUE, resp |-> NilResponse,
          err |-> mapper(data, fb.result)]
    ELSE [done |-> TRUE,
          resp |-> [nil |-> FALSE, Code |-> code, Msg |-> StatusLine(code),
                    Body |-> body],
          err |-> ""]

-----------------------------------------------------------------------------
(* The setters *)

Idle == pc = "idle"

Transport == <<pc, elapsed, ctxErr, req, tres, decoded, ret, mem, pool, kept>>

Uri(u) ==
    /\ Idle
    /\ b' = [b EXCEPT !.url = u]
    /\ last' = [last EXCEPT !.url = u]
    /\ UNCHANGED <<Transport, dest>>

Timeout(t) ==
    /\ Idle
    /\ b' = [b EXCEPT !.Timeout = t]
    /\ last' = [last EXCEPT !.Timeout = t]
    /\ UNCHANGED <<Transport, dest>>

Auth(a) ==
    /\ Idle
    /\ b' = [b EXCEPT !.Auth = a]
    /\ last' = [last EXCEPT !.Auth = a]
    /\ UNCHANGED <<Transport, dest>>

\* Headers appending to the list it should replace
HeadersAppend(hs) ==
    /\ Idle
    /\ b' = [b EXCEPT !.Headers = b.Headers \o hs]
    /\ last' = [last EXCEPT !.Headers = hs]
    /\ UNCHANGED <<Transport, dest>>

Headers(hs) ==
    /\ Idle
    /\ b' = [b EXCEPT !.Headers = hs]
    /\ last' = [last EXCEPT !.Headers = hs]
    /\ UNCHANGED <<Transport, dest>>

Payload(p) ==
    /\ Idle
    /\ b' = [b EXCEPT !.payload = p]
    /\ last' = [last EXCEPT !.payload = p]
    /\ UNCHANGED <<Transport, dest>>

\* the caller passes nil, or a pointer to a destination of its own
Result(r) ==
    /\ Idle
    /\ b' = [b EXCEPT !.result = r]
    /\ last' = [last EXCEPT !.result = r]
    /\ dest' = ""
    /\ UNCHANGED Transport

-----------------------------------------------------------------------------
(* The terminal calls *)

\* makeRequest up to the call of client.DoTimeout, where it blocks
Send ==
    /\ Idle
    /\ pc' = "inflight"
    /\ elapsed' = 0
    /\ ctxErr' = ""
    /\ req' = PrepareRequest(b')
    /\ tres' = NoResult
    /\ decoded' = FALSE
    /\ ret' = NoReturn
    /\ mem' = Collect(mem, pool, kept, NoReturn)
    /\ UNCHANGED <<dest, pool, kept>>

Get ==
    /\ b' = [b EXCEPT !.method = "GET"]
    /\ last' = [last EXCEPT !.method = "Get"]
    /\ Send

Post ==
    /\ b' = [b EXCEPT !.method = "POST"]
    /\ last' = [last EXCEPT !.method = "Post"]
    /\ Send

Patch ==
    /\ b' = [b EXCEPT !.method = "PATCH"]
    /\ last' = [last EXCEPT !.method = "Patch"]
    /\ Send

Delete ==
    /\ b' = [b EXCEPT !.method = "DELETE"]
    /\ last' = [last EXCEPT !.method = "Delete"]
    /\ Send

-----------------------------------------------------------------------------
(* While makeRequest is in DoTimeout *)

InFlight == pc = "inflight"

Tick ==
    /\ InFlight
    /\ elapsed < MaxTime
    /\ elapsed' = elapsed + 1
    /\ UNCHANGED <<b, last, pc, ctxErr, req, tres, decoded, dest, ret,
                   mem, pool, kept>>

\* the timer of context.WithTimeout fires, in a goroutine of its own: only a
\* context made with a timeout has one, and never before its deadline
CtxTimer ==
    /\ InFlight
    /\ b.Timeout > 0
    /\ elapsed >= b.Timeout
    /\ ctxErr = ""
    /\ ctxErr' = DeadlineExceeded
    /\ UNCHANGED <<b, last, pc, elapsed, req, tres, decoded, dest, ret,
                   mem, pool, kept>>

\* makeRequest returns: its context and its timer are gone, and the deferred
\* ReleaseRequest has taken the request back
Returned ==
    /\ pc' = "idle"
    /\ elapsed' = 0
    /\ ctxErr' = ""
    /\ req' = NoRequest
    /\ UNCHANGED <<b, last>>

\* DoTimeout returns ErrTimeout ("timeout"): at once when the timeout it is
\* given is not positive (fasthttp tests it before it sends anything), else
\* when the timeout has elapsed with no response. The context of makeRequest
\* is not an argument of DoTimeout: its timer runs on its own.
DoTimeoutElapsed ==
    /\ InFlight
    /\ elapsed >= b.Timeout
    /\ tres' = Failed("timeout")
    /\ ret' = ErrorReturn("timeout", ctxErr)
    /\ Returned
    /\ UNCHANGED <<decoded, dest, mem, pool, kept>>

\* DoTimeout returns another error of the transport
DoTimeoutError(cause) ==
    /\ InFlight
    /\ b.Timeout > 0
    /\ tres' = Failed(cause)
    /\ ret' = ErrorReturn(cause, ctxErr)
    /\ Returned
    /\ UNCHANGED <<decoded, dest, mem, pool, kept>>

\* DoTimeout returns nil: a response arrived before the timeout elapsed, its
\* body read into a buffer of the pool (src) or into a new one (src = 0);
\* the caller holds on to the Response it gets (keep) or lets it go
DoTimeoutResponse(code, data, src, keep) ==
    /\ InFlight
    /\ b.Timeout > 0
    /\ elapsed < b.Timeout
    /\ tres' = [err |-> "", code |-> code, data |-> data]
    /\ decoded' = RunsMapper(b)
    /\ ret' = SuccessReturn(b, code, data, RespBody(src, data))
    /\ dest' = IF RunsMapper(b) /\ mapper(data, b.result) = ""
               THEN Str(data) ELSE dest
    /\ keep => ~ret'.resp.nil /\ Cardinality(kept) < MaxKept
    /\ kept' = IF keep THEN kept \cup {[resp |-> ret'.resp, bytes |-> data]}
               ELSE kept
    /\ pool' = ReleaseResponse(src, data)
    /\ mem' = Collect(ReadBody(src, data), pool', kept', ret')
    /\ Returned

-----------------------------------------------------------------------------
(* The program *)

Init ==
    /\ b = Build
    /\ last = Build
    /\ pc = "idle"
    /\ elapsed = 0
    /\ ctxErr = ""
    /\ req = NoRequest
    /\ tres = NoResult
    /\ decoded = FALSE
    /\ dest = ""
    /\ ret = NoReturn
    /\ mem = [i \in Arrays |-> <<>>]
    /\ pool = {}
    /\ kept = {}

\* the header lists of at most MaxHdrs entries
HeaderLists(entries) == UNION {[1..n -> entries] : n \in 0..MaxHdrs}

\* the setters, their arguments drawn from the sets of D
Setters(D) ==
    \/ \E u \in D.urls : Uri(u)
    \/ \E t \in D.timeouts : Timeout(t)
    \/ \E a \in D.auths : Auth(a)
    \/ \E hs \in D.headers : Headers(hs)
    \/ \E p \in D.payloads : Payload(p)
    \/ \E r \in D.results : Result(r)

Terminal == Get \/ Post \/ Patch \/ Delete

\* what the transport and the runtime do while a call is in flight
InTransport(D) ==
    \/ Tick
    \/ CtxTimer
    \/ DoTimeoutElapsed
    \/ \E cause \in D.causes : DoTimeoutError(cause)
    \/ \E code \in D.codes, data \in D.bodies, src \in pool \cup {0},
             keep \in D.keeps :
           DoTimeoutResponse(code, data, src, keep)

BasicAuth == [Username |-> <<"u">>, Password |-> <<"p">>, Token |-> ""]

\* every operation of the package, on a few values of each input
Inputs ==
    [urls |-> {"http://h/a"},
     timeouts |-> {0, 1},
     auths |-> {BasicAuth},
     headers |-> {<<>>, <<[Tag |-> "X-A", Value |-> BoolVal(TRUE)]>>},
     payloads |-> {NilBytes, Bytes(<<"1">>)},
     results |-> {"nil", "*int"},
     causes |-> {"connection refused"},
     codes |-> {200},
     bodies |-> {<<"1">>},
     keeps |-> {FALSE}]

Next == Setters(Inputs) \/ Terminal \/ InTransport(Inputs)

Spec == Init /\ [][Next]_vars

\* the dispatch of a request: every timeout, every kind of destination, and
\* a transport that answers, fails or stays silent
DispatchInputs ==
    [timeouts |-> 0..MaxTime,
     results |-> {"nil", "*int", "*struct", "nilptr"},
     causes |-> {"connection refused", "no such host"},
     codes |-> {200, 404},
     bodies |-> {<<"1">>, <<"{", "}">>, <<"{">>},
     keeps |-> {FALSE}]

NextDispatch ==
    \/ \E t \in DispatchInputs.timeouts : Timeout(t)
    \/ \E r \in DispatchInputs.results : Result(r)
    \/ Terminal
    \/ InTransport(DispatchInputs)

SpecDispatch == Init /\ [][NextDispatch]_vars

\* the request of every configuration: every Auth value, every header list
\* of at most MaxHdrs entries with repeated tags and an Authorization tag,
\* every kind of payload
Auths ==
    {[Username |-> u, Password |-> p, Token |-> t] :
        u \in {<<>>, <<"u">>}, p \in {<<>>, <<"p">>}, t \in {"", "t"}}
    \cup {[Username |-> <<"u", "s">>, Password |-> <<"p", "w">>, Token |-> ""],
          [Username |-> <<"u">>, Password |-> <<"p", "w">>, Token |-> "t"]}

Entries ==
    {[Tag |-> "Authorization", Value |-> StrVal("x")],
     [Tag |-> "X-A", Value |-> IntVal(17)],
     [Tag |-> "X-A", Value |-> NilVal]}

RequestInputs ==
    [urls |-> {"http://h/a", "http://h/b"},
     timeouts |-> {1},
     auths |-> Auths,
     headers |-> HeaderLists(Entries),
     payloads |-> {NilBytes, Bytes(<<>>), Bytes(<<"1">>)},
     results |-> {"nil"},
     causes |-> {"connection refused"},
     codes |-> {200},
     bodies |-> {<<"1">>},
     keeps |-> {FALSE}]

NextRequest ==
    \/ Setters(RequestInputs)
    \/ Terminal
    \/ DoTimeoutElapsed
    \/ \E code \in RequestInputs.codes, data \in RequestInputs.bodies,
             src \in pool \cup {0} :
           DoTimeoutResponse(code, data, src, FALSE)

SpecRequest == Init /\ [][NextRequest]_vars

\* the Responses a caller holds on to while it makes further calls
PoolInputs ==
    [timeouts |-> {1},
     causes |-> {"connection refused"},
     codes |-> {200},
     bodies |-> {<<"1">>, <<"{", "}">>, <<"[", "]">>},
     keeps |-> {TRUE, FALSE}]

NextPool ==
    \/ \E t \in PoolInputs.timeouts : Timeout(t)
    \/ Terminal
    \/ InTransport(PoolInputs)

SpecPool == Init /\ [][NextPool]_vars

-----------------------------------------------------------------------------
(* The claims *)

\* makeRequest returns in this step
Returns == pc = "inflight" /\ pc' = "idle"

\* Auth supplies credentials: a complete pair, or a token
HasCredentials(a) == (a.Username # <<>> /\ a.Password # <<>>) \/ a.Token # ""

\* the number of entries of a request header with the given tag
Count(h, tag) == Cardinality({i \in 1..Len(h) : h[i].Tag = tag})

\* the last entry of a header list with the given tag
LastEntry(hs, tag) ==
    hs[CHOOSE i \in 1..Len(hs) :
           hs[i].Tag = tag /\ \A j \in (i + 1)..Len(hs) : hs[j].Tag # tag]

\* the HTTP verb of a terminal method
VerbOf(name) ==
    CASE name = "Get" -> "GET"
      [] name = "Post" -> "POST"
      [] name = "Patch" -> "PATCH"
      [] name = "Delete" -> "DELETE"
      [] OTHER -> ""

\* C1: the request of a terminal call carries "Basic " + base64(Username +
\* ":" + Password) as its Authorization header when Username and Password
\* are both non-empty, also when Token is non-empty, and otherwise "Bearer "
\* + Token when Token is non-empty; it never carries two Authorization
\* headers. base64 is checked against the known encodings of "u:p", "us:pw"
\* and "u:pw".
C1_AuthorizationRule ==
    pc = "inflight" =>
        /\ Count(req.Header, "Authorization") <= 1
        /\ (b.Auth.Username # <<>> /\ b.Auth.Password # <<>>) =>
              /\ Count(req.Header, "Authorization") = 1
              /\ Peek(req.Header, "Authorization")
                   = "Basic " \o StdEncoding(b.Auth.Username \o <<":">>
                                               \o b.Auth.Password)
              /\ Peek(req.Header, "Authorization") # "Bearer " \o b.Auth.Token
              /\ (b.Auth.Username = <<"u">> /\ b.Auth.Password = <<"p">>) =>
                    Peek(req.Header, "Authorization") = "Basic dTpw"
              /\ (b.Auth.Username = <<"u", "s">>
                    /\ b.Auth.Password = <<"p", "w">>) =>
                    Peek(req.Header, "Authorization") = "Basic dXM6cHc="
              /\ (b.Auth.Username = <<"u">>
                    /\ b.Auth.Password = <<"p", "w">>) =>
                    Peek(req.Header, "Authorization") = "Basic dTpwdw=="
        /\ (~(b.Auth.Username # <<>> /\ b.Auth.Password # <<>>)
              /\ b.Auth.Token # "") =>
              /\ Count(req.Header, "Authorization") = 1
              /\ Peek(req.Header, "Authorization") = "Bearer " \o b.Auth.Token

\* a call in flight with a complete pair and a token: Basic has won
C1_Witness ==
    /\ pc = "inflight"
    /\ b.Auth = [Username |-> <<"u">>, Password |-> <<"p">>, Token |-> "t"]
    /\ Peek(req.Header, "Authorization") = "Basic dTpw"

\* C6, as stated: with neither a complete pair nor a token the request
\* carries no Authorization header, whatever the header list; and the
\* request's tags are the list's, plus Authorization at most once
C6_NoCredentialsNoAuthorization ==
    pc = "inflight" =>
        /\ ~HasCredentials(b.Auth) => ~HasTag(req.Header, "Authorization")
        /\ Tags(req.Header) \subseteq Tags(b.Headers) \cup {"Authorization"}
        /\ Tags(b.Headers) \subseteq Tags(req.Header)
        /\ \A tag \in Tags(req.Header) : Count(req.Header, tag) = 1

\* C6, amended: with neither a complete pair nor a token the terminal call
\* adds no Authorization header of its own, so the request carries one
\* exactly when the header list has an Authorization tag, with the value of
\* the list's last such entry; in all cases the request's tags are the
\* list's, plus Authorization when Auth supplies credentials, each once
C6_NoCredentialsAddsNoAuthorization ==
    pc = "inflight" =>
        /\ ~HasCredentials(b.Auth) =>
              /\ HasTag(req.Header, "Authorization")
                   = HasTag(b.Headers, "Authorization")
              /\ HasTag(b.Headers, "Authorization") =>
                    Peek(req.Header, "Authorization")
                      = Sprintv(LastEntry(b.Headers, "Authorization").Value)
        /\ Tags(req.Header)
             = Tags(b.Headers)
                 \cup (IF HasCredentials(b.Auth) THEN {"Authorization"} ELSE {})
        /\ \A tag \in Tags(req.Header) : Count(req.Header, tag) = 1

\* a call in flight without credentials whose header list has an
\* Authorization tag: the request carries it
C6_Witness ==
    /\ pc = "inflight"
    /\ ~HasCredentials(b.Auth)
    /\ HasTag(b.Headers, "Authorization")
    /\ HasTag(b.Headers, "X-A")
    /\ Peek(req.Header, "Authorization") = "x"

\* what C7 says of the method, the URL and the body of the request
C7_MethodUriBody ==
    /\ req.sent
    /\ req.method = VerbOf(last.method)
    /\ req.uri = last.url
    /\ req.body.nil = last.payload.nil
    /\ req.body.bytes = last.payload.bytes

\* C7, as stated: the request in flight has the verb of the terminal method
\* called, the last URL, the last payload (no body when it is nil), and for
\* each tag of the last header list the string form of the last entry with
\* that tag
C7_RequestIsLastConfiguration ==
    pc = "inflight" =>
        /\ C7_MethodUriBody
        /\ \A tag \in Tags(last.Headers) :
              /\ Count(req.Header, tag) = 1
              /\ Peek(req.Header, tag)
                   = Sprintv(LastEntry(last.Headers, tag).Value)

\* C7, amended: as stated, except that the tag Authorization carries the
\* Basic or Bearer value when the last Auth supplies credentials
C7_RequestIsLastConfigurationUnderAuth ==
    pc = "inflight" =>
        /\ C7_MethodUriBody
        /\ \A tag \in Tags(last.Headers) :
              /\ Count(req.Header, tag) = 1
              /\ Peek(req.Header, tag)
                   = IF tag = "Authorization" /\ HasCredentials(last.Auth)
                     THEN (IF IsBasic(last.Auth) THEN BasicValue(last.Auth)
                           ELSE BearerValue(last.Auth))
                     ELSE Sprintv(LastEntry(last.Headers, tag).Value)

\* a PATCH in flight to the second URL, with a body, whose header list
\* repeats a tag: the later entry's string form is carried
C7_Witness ==
    /\ pc = "inflight"
    /\ req.method = "PATCH"
    /\ req.uri = "http://h/b"
    /\ req.body = Bytes(<<"1">>)
    /\ b.Headers = <<[Tag |-> "X-A", Value |-> NilVal],
                     [Tag |-> "X-A", Value |-> IntVal(17)]>>
    /\ Peek(req.Header, "X-A") = "17"

\* C8: the builder always holds exactly the last argument passed to each
\* setter (the zero value when a setter was never called) and the verb of
\* the terminal method called last: a setter changes its own field and no
\* other, Headers replaces the list, a repeated call changes nothing, and a
\* terminal call changes the method alone
C8_BuilderHoldsLastArguments ==
    b = [last EXCEPT !.method = VerbOf(last.method)]

\* after a DELETE has returned, with every field set: a second terminal call
\* would dispatch this configuration
C8_Witness ==
    /\ pc = "idle"
    /\ ret.done
    /\ b.method = "DELETE"
    /\ b.url = "http://h/a"
    /\ b.Timeout = 1
    /\ b.Auth = BasicAuth
    /\ b.Headers # <<>>
    /\ ~b.payload.nil
    /\ b.result = "*int"

\* C2, as stated: a call with no timeout configured has no deadline; it does
\* not fail with the transport's timeout error
C2_ZeroTimeoutHasNoDeadline ==
    [][(Returns /\ b.Timeout = 0) =>
          /\ tres'.err # "timeout"
          /\ ret'.err \notin {"request timed out", "request failed: timeout"}
      ]_vars

\* C3, as stated: with a timeout configured, a call whose transport gave up
\* because the timeout elapsed returns "request timed out" and no Response
C3_ElapsedTimeoutIsTimeoutError ==
    [][(Returns /\ b.Timeout > 0 /\ tres'.err = "timeout") =>
          (ret'.err = "request timed out" /\ ret'.resp.nil)
      ]_vars

\* C4: mapper runs exactly when a destination was supplied and DoTimeout
\* returned nil; when it runs and fails the call returns its error and no
\* Response (a body that is not JSON fails for every destination); with no
\* destination nothing is decoded and a successful exchange returns a
\* Response and no error
C4_DecodeIffDestination ==
    [][Returns =>
          /\ decoded' = (b.result # "nil" /\ tres'.err = "")
          /\ (decoded' /\ Unmarshal(tres'.data, b.result) # "") =>
                /\ ret'.resp.nil
                /\ ret'.err = Unmarshal(tres'.data, b.result)
          /\ (decoded' /\ tres'.data = <<"{">>) =>
                (ret'.resp.nil /\ ret'.err # "")
          /\ (b.result = "nil" /\ tres'.err = "") =>
                (~decoded' /\ dest' = dest /\ ~ret'.resp.nil /\ ret'.err = "")
      ]_vars

\* mapper ran on a body that is JSON of the wrong kind for the destination:
\* the call returned the error and no Response
C4_Witness ==
    /\ ret.done
    /\ decoded
    /\ tres.err = ""
    /\ tres.data = <<"{", "}">>
    /\ b.result = "*int"
    /\ ret.resp.nil
    /\ ret.err # ""

\* C5: a call returns a Response or an error, never both and never neither:
\* no Response and an error when DoTimeout failed or the decode step failed,
\* else a Response with the status code received and no error
C5_ResponseXorError ==
    [][Returns =>
          /\ ret'.done
          /\ ret'.resp.nil = (ret'.err # "")
          /\ IF \/ tres'.err # ""
                \/ (b.result # "nil" /\ Unmarshal(tres'.data, b.result) # "")
             THEN ret'.resp.nil /\ ret'.err # ""
             ELSE /\ ~ret'.resp.nil
                  /\ ret'.resp.Code = tres'.code
                  /\ ret'.err = ""
      ]_vars

\* a call returned the Response of an exchange that ended with status 404
C5_Witness ==
    /\ ret.done
    /\ tres.err = ""
    /\ tres.code = 404
    /\ ~ret.resp.nil
    /\ ret.resp.Code = 404
    /\ ret.err = ""

\* C9, as stated: with a deadline timer running, the error returned is
\* "request timed out" exactly when the transport's error is its timeout,
\* and "request failed: <cause>" for every other cause
C9_ErrorKindMatchesCause ==
    [][(Returns /\ b.Timeout > 0) =>
          /\ tres'.err = "timeout" => ret'.err = "request timed out"
          /\ tres'.err \notin {"", "timeout"} =>
                ret'.err = "request failed: " \o tres'.err
      ]_vars

\* C10, as stated: the Body of every Response the caller holds shows the
\* bytes it showed when the Response was returned
C10_KeptBodiesKeepTheirBytes ==
    \A k \in kept : View(mem, k.resp.Body) = k.bytes

====
